---- MODULE Spec2Model ----
(***************************************************************************)
(* verify_sdcard_copied: the index builder and the matching traversal of   *)
(* verify_sdcard_copied_exif.py and verify_sdcard_copied_blake3.py.        *)
(*                                                                         *)
(* The file systems are the environment.  The program observes them in     *)
(* three places: os.walk lists the names of a directory, os.path.getmtime  *)
(* reads a modification time, and the fingerprint functions read a file's  *)
(* bytes.  A file's name, mtime and content are drawn when os.walk lists   *)
(* it; the content is kept in pc_fs until the scan reads it.               *)
(***************************************************************************)
EXTENDS Integers, Sequences, FiniteSets

\* modification times and capture times are 0..MaxTime (0 is the epoch, 0.0)
MaxTime == 1
\* file contents (0 is the empty file / the image without EXIF tags)
Data == {0, 1, 2}

(***************************************************************************)
(* Python values: None, str, int and float, with Python's truth value.     *)
(* Every str of the program that is tested for truth is non-empty (an      *)
(* f-string with literal text, a hex digest).                              *)
(***************************************************************************)
None == <<"None", 0>>
PyStr(n) == <<"str", n>>
PyInt(n) == <<"int", n>>
PyFloat(t) == <<"float", t>>
\* mutant of Truthy: every value passes the test, None included
Truthy_always(v) == v[1] \in {"None", "str", "int", "float"}
Truthy(v) == v[1] = "str" \/ (v[1] \in {"int", "float"} /\ v[2] # 0)

Variants == {"exif", "blake3"}

(***************************************************************************)
(* File names and the extension filter.                                    *)
(***************************************************************************)
image_endings == {".jpg", ".jpeg", ".png", ".cr2", ".cr3", ".nef"}

default_extensions(v) ==
    IF v = "exif" THEN image_endings \cup {".mov", ".mp4"}
    ELSE {".jpg", ".jpeg", ".png", ".mov", ".mp4", ".cr2", ".cr3"}

\* str.lower() on the suffixes that occur
lower(e) ==
    CASE e = ".JPG" -> ".jpg"
      [] e = ".MOV" -> ".mov"
      [] OTHER -> e

\* file.lower().endswith(extensions)
endswith_ci(name, exts) == lower(name.ext) \in exts

(***************************************************************************)
(* File contents and the fingerprint backends.  A content is               *)
(* [ok, data]: ok = FALSE is a file whose read (or EXIF parse) raises.     *)
(***************************************************************************)
Unreadable == [ok |-> FALSE, data |-> 0]
Contents == {Unreadable} \cup [ok : {TRUE}, data : Data]

\* An image with data 0 has no EXIF tags: its identifier is the string
\* "None-None | None | None" and it has no capture time.  An image with
\* data d > 0 has DateTimeOriginal = epoch + (d - 1) s, which is part of its
\* identifier.
get_image_metadata(c) ==
    IF ~c.ok THEN <<None, None>>
    ELSE <<PyStr(c.data), IF c.data = 0 THEN None ELSE PyFloat(c.data - 1)>>

\* hash() of the first 8 KB; hash(b"") is 0
get_video_metadata(c) ==
    IF ~c.ok THEN <<None, None>> ELSE <<PyInt(c.data), None>>

\* the blake3 hex digest, a non-empty string
get_file_hash(c) ==
    IF ~c.ok THEN None ELSE PyStr(c.data)

\* the fingerprint the variant v computes for a file named name: the exif
\* variant picks the backend by the suffix, the blake3 variant hashes all
fingerprint(v, name, c) ==
    IF v = "blake3" THEN get_file_hash(c)
    ELSE IF endswith_ci(name, image_endings) THEN get_image_metadata(c)[1]
    ELSE get_video_metadata(c)[1]

(***************************************************************************)
(* dict operations                                                         *)
(***************************************************************************)
EmptyDict == [k \in {} |-> None]
dict_set(d, k, v) == [x \in DOMAIN d \cup {k} |-> IF x = k THEN v ELSE d[x]]
\* mutants of dict_del: the key stays, every key goes, the key stays with a
\* blanked path
dict_del_noop(d, k) == d
dict_del_all(d, k) == [x \in {} |-> d[x]]
dict_del_blank(d, k) ==
    [x \in DOMAIN d |-> IF x = k THEN [dir |-> "", stem |-> "", ext |-> ""] ELSE d[x]]
dict_del(d, k) == [x \in DOMAIN d \ {k} |-> d[x]]
len(d) == Cardinality(DOMAIN d)

(***************************************************************************)
(* The exclusion regex.  A pattern is [start, lit, end]: an optional ^, a  *)
(* sequence of characters in which Dot is the regex ".", an optional $.    *)
(* The empty pattern is the default '' of --exclude.                       *)
(***************************************************************************)
Dot == "<any>"
NoRegex == [start |-> FALSE, lit |-> <<>>, end |-> FALSE]
Regexes ==
    { NoRegex,
      [start |-> TRUE, lit |-> <<"b">>, end |-> TRUE],        \* ^b$
      [start |-> TRUE, lit |-> <<"b", "/">>, end |-> FALSE],  \* ^b/
      [start |-> FALSE, lit |-> <<Dot>>, end |-> FALSE] }     \* .

match_at(re, s, k) ==
    /\ k + Len(re.lit) - 1 <= Len(s)
    /\ \A j \in 1..Len(re.lit) : re.lit[j] = Dot \/ re.lit[j] = s[k + j - 1]

\* regex.search(s)
regex_search(re, s) ==
    \E k \in 1..(Len(s) + 1) :
        /\ re.start => k = 1
        /\ re.end => k + Len(re.lit) - 1 = Len(s)
        /\ match_at(re, s, k)

\* regex and regex.search(rel_root), regex being None for the empty pattern
excluded(re, rel_root) == re # NoRegex /\ regex_search(re, rel_root)

(***************************************************************************)
(* The two trees.  The source holds up to Len(SdStems) files.  The target  *)
(* is the root, its subdirectory b and b's subdirectory s, in the          *)
(* top-down order of os.walk, each with at most one file.                  *)
(***************************************************************************)
SdStems == <<"IMG_1", "IMG_2">>
SdExts == {".jpg", ".MOV", ".txt"}

PcDirs == << <<".">>, <<"b">>, <<"b", "/", "s">> >>
PcNames ==
    << {[stem |-> "a", ext |-> ".jpg"], [stem |-> "notes", ext |-> ".txt"]},
       {[stem |-> "IMG_1", ext |-> ".JPG"], [stem |-> "notes", ext |-> ".txt"]},
       {[stem |-> "clip", ext |-> ".MOV"], [stem |-> "notes", ext |-> ".txt"]} >>

NoMtime == 0 - 1
Mtimes == 0..MaxTime

(***************************************************************************)
(* list.sort(key=mtime, reverse=True): stable, newest first.               *)
(***************************************************************************)
RECURSIVE insert_desc(_, _)
insert_desc(sorted, x) ==
    IF sorted = <<>> THEN <<x>>
    ELSE IF Head(sorted).mtime >= x.mtime
         THEN <<Head(sorted)>> \o insert_desc(Tail(sorted), x)
         ELSE <<x>> \o sorted

\* mutant of sort_newest_first: the list is left in the order of the walk
no_sort(list) == list

RECURSIVE sort_newest_first(_)
sort_newest_first(list) ==
    IF list = <<>> THEN <<>>
    ELSE insert_desc(sort_newest_first(SubSeq(list, 1, Len(list) - 1)),
                     list[Len(list)])

\* mutants of older_than_cutoff: <= for <, and > for <
older_than_cutoff_le(cutoff, mtime) == Truthy(cutoff) /\ mtime <= cutoff[2]
older_than_cutoff_gt(cutoff, mtime) == Truthy(cutoff) /\ mtime > cutoff[2]

\* earliest_capture_timestamp and mtime < earliest_capture_timestamp
older_than_cutoff(cutoff, mtime) == Truthy(cutoff) /\ mtime < cutoff[2]

VARIABLES
    variant,                    \* which of the two scripts runs
    exclude,                    \* args.exclude
    phase,                      \* position of main
    state,                      \* state of the traversal engine
    sd_pos,                     \* source files listed by os.walk so far
    sd_i,                       \* i of build_sdcard_metadata
    sdcard_metadata,            \* the catalog (sdcard_hashes in blake3)
    earliest_capture_timestamp,
    sd_log,                     \* qualifying source files processed, with ids
    dup_warnings,               \* duplicate warnings the builder has printed
    count_warning,              \* "Only N out of i files will be compared"
    walk_pos,                   \* target directories walked so far
    file_list,
    pc_skipped,                 \* qualifying files of the directories skipped
    pc_fs,                      \* content of the recorded candidates
    scan_pos,                   \* candidates taken by the scanning loop
    found_files,
    fingerprinted,              \* candidates fingerprinted, with their ids
    looking_for,
    catalog0,                   \* the catalog on entry to the traversal
    out                         \* the final report of main

build_vars == <<sd_pos, sd_i, sd_log, dup_warnings, count_warning>>
cat_vars == <<sdcard_metadata, earliest_capture_timestamp>>
enum_vars == <<walk_pos, pc_skipped, pc_fs>>
scan_vars == <<scan_pos, found_files, fingerprinted>>
vars == <<variant, exclude, phase, state, build_vars, cat_vars, enum_vars,
          file_list, scan_vars, looking_for, catalog0, out>>

\* nothing printed by main's report yet, and the process still running
NoReport == [all_found |-> FALSE, not_found |-> {}, warning |-> FALSE,
             listed |-> FALSE, status |-> None]

Init ==
    /\ variant \in Variants
    /\ exclude \in Regexes
    /\ phase = "Building"
    /\ state = "Idle"
    /\ sd_pos = 0
    /\ sd_i = 0
    /\ sdcard_metadata = EmptyDict
    /\ earliest_capture_timestamp = None
    /\ sd_log = <<>>
    /\ dup_warnings = {}
    /\ count_warning = FALSE
    /\ walk_pos = 0
    /\ file_list = <<>>
    /\ pc_skipped = {}
    /\ pc_fs = EmptyDict
    /\ scan_pos = 0
    /\ found_files = 0
    /\ fingerprinted = <<>>
    /\ looking_for = 0
    /\ catalog0 = EmptyDict
    /\ out = NoReport

(***************************************************************************)
(* Index builder.  One step is one iteration of the loop over the files    *)
(* that os.walk lists in the source directory.                             *)
(***************************************************************************)
sd_path(k, e) == [dir |-> "sd", stem |-> SdStems[k], ext |-> e]

\* the earliest capture timestamp after a file with capture time ts
next_earliest(earliest, ts) ==
    IF Truthy(ts) /\ (earliest = None \/ ts[2] < earliest[2]) THEN ts ELSE earliest

build_sdcard_metadata ==
    /\ phase = "Building" /\ variant = "exif"
    /\ sd_pos < Len(SdStems)
    /\ \E e \in SdExts, c \in Contents :
        LET file_path == sd_path(sd_pos + 1, e)
            md == IF endswith_ci(file_path, image_endings)
                  THEN get_image_metadata(c) ELSE get_video_metadata(c)
            metadata_id == md[1]
            capture_timestamp == md[2]
        IN  /\ sd_pos' = sd_pos + 1
            /\ IF endswith_ci(file_path, default_extensions(variant))
               THEN /\ sd_i' = sd_i + 1
                    /\ sd_log' = Append(sd_log, [path |-> file_path, id |-> metadata_id,
                                                 ts |-> capture_timestamp])
                    /\ IF Truthy(metadata_id)
                       THEN /\ dup_warnings' =
                                 IF metadata_id \in DOMAIN sdcard_metadata
                                 THEN dup_warnings \cup
                                        {[new |-> file_path,
                                          old |-> sdcard_metadata[metadata_id],
                                          id |-> metadata_id]}
                                 ELSE dup_warnings
                            /\ sdcard_metadata' =
                                 dict_set(sdcard_metadata, metadata_id, file_path)
                            /\ earliest_capture_timestamp' =
                                 next_earliest(earliest_capture_timestamp, capture_timestamp)
                       ELSE UNCHANGED <<dup_warnings, cat_vars>>
               ELSE UNCHANGED <<sd_i, sd_log, dup_warnings, cat_vars>>
    /\ UNCHANGED <<variant, exclude, phase, state, count_warning, enum_vars,
                   file_list, scan_vars, looking_for, catalog0, out>>

\* the end of the walk: the count warning and the return
build_sdcard_metadata_return ==
    /\ phase = "Building" /\ variant = "exif"
    /\ count_warning' = (sd_i # len(sdcard_metadata))
    /\ phase' = "Built"
    /\ UNCHANGED <<variant, exclude, state, sd_pos, sd_i, sd_log, dup_warnings,
                   cat_vars, enum_vars, file_list, scan_vars, looking_for,
                   catalog0, out>>

build_sdcard_hashmap ==
    /\ phase = "Building" /\ variant = "blake3"
    /\ sd_pos < Len(SdStems)
    /\ \E e \in SdExts, c \in Contents :
        LET file_path == sd_path(sd_pos + 1, e)
            file_hash == get_file_hash(c)
        IN  /\ sd_pos' = sd_pos + 1
            /\ IF endswith_ci(file_path, default_extensions(variant))
               THEN /\ sd_log' = Append(sd_log, [path |-> file_path, id |-> file_hash,
                                                 ts |-> None])
                    /\ IF Truthy(file_hash)
                       THEN sdcard_metadata' =
                                dict_set(sdcard_metadata, file_hash, file_path)
                       ELSE UNCHANGED sdcard_metadata
               ELSE UNCHANGED <<sd_log, sdcard_metadata>>
    /\ UNCHANGED <<variant, exclude, phase, state, sd_i, dup_warnings,
                   count_warning, earliest_capture_timestamp, enum_vars,
                   file_list, scan_vars, looking_for, catalog0, out>>

build_sdcard_hashmap_return ==
    /\ phase = "Building" /\ variant = "blake3"
    /\ phase' = "Built"
    /\ UNCHANGED <<variant, exclude, state, build_vars, cat_vars, enum_vars,
                   file_list, scan_vars, looking_for, catalog0, out>>

(***************************************************************************)
(* main, between the builder and the traversal.                            *)
(***************************************************************************)
\* if not sdcard_metadata: sys.exit(), which ends the process with status 0
main_no_files ==
    /\ phase = "Built"
    /\ sdcard_metadata = EmptyDict
    /\ phase' = "Exited"
    /\ out' = [out EXCEPT !.status = PyInt(0)]
    /\ UNCHANGED <<variant, exclude, state, build_vars, cat_vars, enum_vars,
                   file_list, scan_vars, looking_for, catalog0>>

\* the call of traverse_pc_directory; the builder's locals and the record
\* of its call are gone
main_traverse ==
    /\ phase = "Built"
    /\ sdcard_metadata # EmptyDict
    /\ looking_for' = IF variant = "exif" THEN len(sdcard_metadata) ELSE 0
    /\ catalog0' = sdcard_metadata
    /\ phase' = "Traversing"
    /\ state' = "Enumerating"
    /\ sd_pos' = 0 /\ sd_i' = 0 /\ sd_log' = <<>>
    /\ dup_warnings' = {} /\ count_warning' = FALSE
    /\ UNCHANGED <<variant, exclude, cat_vars,
                   enum_vars, file_list, scan_vars, out>>

(***************************************************************************)
(* Traversal engine.                                                       *)
(***************************************************************************)
Terminal == {"Exhausted", "AllMatched", "CutoffReached"}

pc_path(d, name) == [dir |-> d, stem |-> name.stem, ext |-> name.ext]

\* One directory of os.walk(pc_dir): files are the names it lists there.
traverse_enumerate ==
    /\ state = "Enumerating"
    /\ walk_pos < Len(PcDirs)
    /\ walk_pos' = walk_pos + 1
    /\ LET rel_root == PcDirs[walk_pos + 1] IN
       \E files \in {{}} \cup {{n} : n \in PcNames[walk_pos + 1]} :
        LET qualifying == {pc_path(rel_root, n) : n \in
                             {f \in files : endswith_ci(f, default_extensions(variant))}}
        IN  IF excluded(exclude, rel_root)
            THEN /\ pc_skipped' = pc_skipped \cup qualifying
                 /\ UNCHANGED <<file_list, pc_fs>>
            ELSE /\ UNCHANGED pc_skipped
                 /\ IF qualifying = {}
                    THEN UNCHANGED <<file_list, pc_fs>>
                    ELSE \E mtime \in Mtimes \cup {NoMtime}, c \in Contents :
                       LET file_path == CHOOSE p \in qualifying : TRUE IN
                       IF mtime = NoMtime
                       THEN UNCHANGED <<file_list, pc_fs>>
                       ELSE /\ file_list' = Append(file_list,
                                              [path |-> file_path, mtime |-> mtime])
                            /\ pc_fs' = dict_set(pc_fs, file_path, c)
    /\ UNCHANGED <<variant, exclude, phase, state, build_vars, cat_vars,
                   scan_vars, looking_for, catalog0, out>>

\* os.walk is exhausted
traverse_enumerated ==
    /\ state = "Enumerating"
    /\ walk_pos = Len(PcDirs)
    /\ state' = "Sorting"
    /\ UNCHANGED <<variant, exclude, phase, build_vars, cat_vars, enum_vars,
                   file_list, scan_vars, looking_for, catalog0, out>>

traverse_sort ==
    /\ state = "Sorting"
    /\ file_list' = sort_newest_first(file_list)
    /\ scan_pos' = 0
    /\ found_files' = 0
    /\ state' = "Scanning"
    /\ UNCHANGED <<variant, exclude, phase, build_vars, cat_vars, enum_vars,
                   fingerprinted, looking_for, catalog0, out>>

\* mutant of state_after_match: no early return
state_after_match_never(catalog) == "Scanning"

\* after a removal: if not sdcard_metadata: return
state_after_match(catalog) ==
    IF catalog = EmptyDict THEN "AllMatched" ELSE "Scanning"

\* One iteration of the loop over the sorted file_list.
traverse_scan ==
    /\ state = "Scanning"
    /\ scan_pos < Len(file_list)
    /\ LET cand == file_list[scan_pos + 1]
           metadata_id == fingerprint(variant, cand.path, pc_fs[cand.path])
       IN  IF variant = "exif"
              /\ older_than_cutoff(earliest_capture_timestamp, cand.mtime)
           THEN /\ state' = "CutoffReached"
                /\ UNCHANGED <<scan_vars, sdcard_metadata>>
           ELSE /\ scan_pos' = scan_pos + 1
                /\ fingerprinted' = Append(fingerprinted,
                       [path |-> cand.path, mtime |-> cand.mtime, id |-> metadata_id])
                /\ IF metadata_id \in DOMAIN sdcard_metadata
                   THEN /\ sdcard_metadata' = dict_del(sdcard_metadata, metadata_id)
                        /\ found_files' = found_files + 1
                        /\ state' = state_after_match(sdcard_metadata')
                   ELSE UNCHANGED <<sdcard_metadata, found_files, state>>
    /\ UNCHANGED <<variant, exclude, phase, build_vars, earliest_capture_timestamp,
                   enum_vars, file_list, looking_for, catalog0, out>>

\* the loop ends with file_list
traverse_exhausted ==
    /\ state = "Scanning"
    /\ scan_pos = Len(file_list)
    /\ state' = "Exhausted"
    /\ UNCHANGED <<variant, exclude, phase, build_vars, cat_vars, enum_vars,
                   file_list, scan_vars, looking_for, catalog0, out>>

(***************************************************************************)
(* main, after the traversal: the warning and the final report.            *)
(***************************************************************************)
\* mutants of final_report: the test of the catalog inverted, and the list
\* printed without its entries
final_report_inverted(catalog, warning) ==
    [warning |-> warning,
     listed |-> catalog = EmptyDict,
     not_found |-> IF catalog = EmptyDict
                   THEN {catalog[k] : k \in DOMAIN catalog} ELSE {},
     all_found |-> catalog # EmptyDict,
     status |-> PyInt(0)]
final_report_no_entries(catalog, warning) ==
    [warning |-> warning,
     listed |-> catalog # EmptyDict,
     not_found |-> {},
     all_found |-> catalog = EmptyDict,
     status |-> PyInt(0)]

\* if sdcard_metadata: the list of the paths not found, else the all-found
\* message; main then returns and the process ends with status 0
final_report(catalog, warning) ==
    [warning |-> warning,
     listed |-> catalog # EmptyDict,
     not_found |-> IF catalog # EmptyDict
                   THEN {catalog[k] : k \in DOMAIN catalog} ELSE {},
     all_found |-> catalog = EmptyDict,
     status |-> PyInt(0)]

main_report ==
    /\ phase = "Traversing"
    /\ state \in Terminal
    /\ out' = final_report(sdcard_metadata,
                           variant = "exif" /\ looking_for # found_files)
    /\ phase' = "Reported"
    \* traverse_pc_directory has returned: its locals are gone
    /\ walk_pos' = 0 /\ pc_skipped' = {} /\ pc_fs' = EmptyDict
    /\ file_list' = <<>> /\ scan_pos' = 0 /\ fingerprinted' = <<>>
    /\ UNCHANGED <<variant, exclude, state, build_vars, cat_vars, found_files,
                   looking_for, catalog0>>

Next ==
    \/ build_sdcard_metadata
    \/ build_sdcard_metadata_return
    \/ build_sdcard_hashmap
    \/ build_sdcard_hashmap_return
    \/ main_no_files
    \/ main_traverse
    \/ traverse_enumerate
    \/ traverse_enumerated
    \/ traverse_sort
    \/ traverse_scan
    \/ traverse_exhausted
    \/ main_report

Spec == Init /\ [][Next]_vars

\* the program never stops by itself before main has printed its report
FairSpec == Spec /\ WF_vars(Next)

(***************************************************************************)
(* Properties                                                              *)
(***************************************************************************)
\* the traversal is running or at its return; after it has returned its
\* locals are gone
Running == phase = "Traversing"
Scanned == Running /\ state \in {"Scanning"} \cup Terminal
Ended == Running /\ state \in Terminal
FpOf(cand) == fingerprint(variant, cand.path, pc_fs[cand.path])
CutoffSet == earliest_capture_timestamp # None
NotOlderThanCutoff(cand) ==
    ~CutoffSet \/ cand.mtime >= earliest_capture_timestamp[2]
ProducedIds == {fingerprinted[j].id : j \in 1..Len(fingerprinted)}
EveryKeyHasCandidate ==
    \A k \in DOMAIN catalog0 :
        \E j \in 1..Len(file_list) :
            FpOf(file_list[j]) = k /\ NotOlderThanCutoff(file_list[j])

\* C1  Completeness: when every fingerprint of the catalog on entry is the
\* fingerprint of a recorded candidate that is not older than the cutoff
\* (if one is set), the traversal ends with an empty catalog and, in the
\* exif variant, with found_files equal to the size of the catalog on entry.
C1_Completeness ==
    (Ended /\ EveryKeyHasCandidate)
        => /\ sdcard_metadata = EmptyDict
           /\ variant = "exif" => found_files = len(catalog0)

C1_Witness ==
    /\ Ended /\ EveryKeyHasCandidate
    /\ variant = "exif" /\ CutoffSet
    /\ len(catalog0) = 2 /\ found_files = 2
    /\ \E j \in 1..Len(file_list) : ~NotOlderThanCutoff(file_list[j])

\* C2  Catalog-shrink: a scanning step that fingerprints a candidate whose
\* fingerprint is a key of the catalog removes exactly that key, so the size
\* drops by exactly one; a key removed during the traversal is never a key
\* of the catalog again.
C2_CatalogShrink ==
    [][ /\ (Len(fingerprinted') = Len(fingerprinted) + 1
            /\ fingerprinted'[Len(fingerprinted')].id \in DOMAIN sdcard_metadata)
          => /\ len(sdcard_metadata') = len(sdcard_metadata) - 1
             /\ DOMAIN sdcard_metadata' =
                  DOMAIN sdcard_metadata \ {fingerprinted'[Len(fingerprinted')].id}
        /\ Running
          => \A k \in DOMAIN catalog0 \ DOMAIN sdcard_metadata :
                 k \notin DOMAIN sdcard_metadata' ]_vars

C2_Witness ==
    /\ Len(fingerprinted) >= 2
    /\ fingerprinted[1].id \in DOMAIN catalog0
    /\ fingerprinted[2].id = fingerprinted[1].id
    /\ len(sdcard_metadata) = len(catalog0) - 1

\* directory p (a rel_root) is d or lies above d; "." is the root itself
IsPrefix(p, d) == Len(p) <= Len(d) /\ SubSeq(d, 1, Len(p)) = p
IsAncestorOrSelf(p, d) ==
    \/ p = d
    \/ p = <<".">>
    \/ IsPrefix(p \o <<"/">>, d)

\* C3  Exclusion correctness: no recorded candidate lies in a directory
\* whose relative path matches the exclusion regex, nor in any descendant
\* of such a directory.
C3_ExclusionCorrect ==
    \A j \in 1..Len(file_list) :
        \A w \in 1..Len(PcDirs) :
            ~(excluded(exclude, PcDirs[w])
              /\ IsAncestorOrSelf(PcDirs[w], file_list[j].path.dir))

\* C4  Cutoff early termination (exif): with a cutoff T set, no candidate
\* with mtime < T is fingerprinted; the scan never goes past the first
\* candidate of the sorted list with mtime < T, it ends in CutoffReached
\* exactly at that candidate, and it is exhausted only when there is none.
FirstOlder(j) ==
    /\ j \in 1..Len(file_list)
    /\ file_list[j].mtime < earliest_capture_timestamp[2]
    /\ \A h \in 1..(j - 1) : file_list[h].mtime >= earliest_capture_timestamp[2]

C4_CutoffTermination ==
    (variant = "exif" /\ CutoffSet /\ Scanned)
        => /\ \A j \in 1..Len(fingerprinted) :
                  fingerprinted[j].mtime >= earliest_capture_timestamp[2]
           /\ \A j \in 1..Len(file_list) : FirstOlder(j) => scan_pos < j
           /\ state = "CutoffReached" => FirstOlder(scan_pos + 1)
           /\ state = "Exhausted" => ~\E j \in 1..Len(file_list) : FirstOlder(j)

C4_Witness ==
    /\ Running /\ variant = "exif" /\ CutoffSet
    /\ state = "CutoffReached"
    /\ scan_pos >= 1
    /\ scan_pos + 1 < Len(file_list)

\* C5  Collision policy (both variants): when a source file has the
\* fingerprint of an earlier processed source file, the catalog maps the
\* fingerprint to the later path and a warning naming both paths was printed.
C5_CollisionPolicy ==
    \A a, b \in 1..Len(sd_log) :
        (a < b /\ sd_log[a].id = sd_log[b].id /\ Truthy(sd_log[b].id)
         /\ ~\E h \in (a + 1)..(b - 1) : sd_log[h].id = sd_log[b].id)
          => /\ \E w \in dup_warnings :
                   w.new = sd_log[b].path /\ w.old = sd_log[a].path
             /\ (~\E h \in (b + 1)..Len(sd_log) : sd_log[h].id = sd_log[b].id)
                   => sdcard_metadata[sd_log[b].id] = sd_log[b].path

\* C6  Early termination on all matched: the removal that empties the
\* catalog puts the traversal in AllMatched, and in AllMatched nothing more
\* is fingerprinted.
C6_EarlyTermination ==
    [][ /\ (sdcard_metadata # EmptyDict /\ sdcard_metadata' = EmptyDict)
            => state' = "AllMatched"
        /\ (Running /\ sdcard_metadata = EmptyDict)
            => /\ state = "AllMatched" /\ state' = "AllMatched"
               /\ Running' => fingerprinted' = fingerprinted ]_vars

C6_Witness ==
    /\ Running /\ state = "AllMatched"
    /\ len(catalog0) = 2
    /\ scan_pos < Len(file_list)

\* C7  Ordering: the candidates are fingerprinted in non-increasing order
\* of modification time.
C7_Ordering ==
    \A a, b \in 1..Len(fingerprinted) :
        a < b => fingerprinted[a].mtime >= fingerprinted[b].mtime

C7_Witness ==
    /\ Len(fingerprinted) >= 2
    /\ fingerprinted[1].mtime > fingerprinted[2].mtime
    /\ fingerprinted[1].path.dir = <<"b">>
    /\ fingerprinted[2].path.dir = <<".">>

\* C8  Return value (exif): after every scanning step and in every terminal
\* state, found_files is the number of entries removed, so found_files plus
\* the size of the residual catalog is the size of the catalog on entry.
C8_FoundCount ==
    (variant = "exif" /\ Scanned)
        => /\ found_files = len(catalog0) - len(sdcard_metadata)
           /\ found_files + len(sdcard_metadata) = looking_for

C8_Witness ==
    /\ Running /\ variant = "exif"
    /\ state = "CutoffReached"
    /\ found_files = 1
    /\ len(sdcard_metadata) = 1

\* C9  Terminal states: the traversal goes from Enumerating to Sorting to
\* Scanning, always ends in one of Exhausted, AllMatched, CutoffReached and
\* stays there; the residual catalog is then the catalog on entry without
\* the keys that a fingerprinted candidate produced.
C9_TerminalStates ==
    /\ [](Ended
            => sdcard_metadata =
                 [k \in DOMAIN catalog0 \ ProducedIds |-> catalog0[k]])
    /\ [][ /\ state' = "Sorting" => state \in {"Enumerating", "Sorting"}
           /\ state' = "Scanning" => state \in {"Sorting", "Scanning"}
           /\ state' \in Terminal => state \in {"Scanning", state'}
           /\ state \in Terminal => state' = state ]_vars
    /\ (state = "Enumerating") ~> (state \in Terminal)

C9_Witness ==
    /\ Running /\ state = "Exhausted"
    /\ sdcard_metadata # EmptyDict
    /\ len(sdcard_metadata) < len(catalog0)

\* C10  Monotonic shrink: from the return of the index builder on, every
\* step leaves a catalog that is a subset of the one before it: no key is
\* added and no remaining key changes its path.
C10_MonotonicShrink ==
    [][ phase # "Building"
          => /\ DOMAIN sdcard_metadata' \subseteq DOMAIN sdcard_metadata
             /\ \A k \in DOMAIN sdcard_metadata' :
                    sdcard_metadata'[k] = sdcard_metadata[k] ]_vars

C10_Witness ==
    /\ Running
    /\ len(catalog0) = 2
    /\ len(sdcard_metadata) = 1

\* C11  Per-file failure during traversal: None, the value a failed
\* fingerprint returns, is never a key of the catalog; a scanning step whose
\* fingerprint failed leaves the catalog and found_files unchanged and the
\* scan goes on to the next candidate.
C11_TraversalFailure ==
    /\ [](None \notin DOMAIN sdcard_metadata)
    /\ [][ (/\ Len(fingerprinted') = Len(fingerprinted) + 1
            /\ fingerprinted'[Len(fingerprinted')].id = None)
          => /\ sdcard_metadata' = sdcard_metadata
             /\ found_files' = found_files
             /\ state' = "Scanning"
             /\ scan_pos' = scan_pos + 1 ]_vars

C11_Witness ==
    /\ Running
    /\ Len(fingerprinted) >= 2
    /\ fingerprinted[1].id = None
    /\ pc_fs[fingerprinted[1].path] = Unreadable
    /\ fingerprinted[2].id \in DOMAIN catalog0
    /\ found_files = 1

\* the fingerprints the builder computed so far that are not the failure
\* value None
Succeeded == {sd_log[j].id : j \in 1..Len(sd_log)} \ {None}

\* C12  Per-file failure during index build: a qualifying source file whose
\* fingerprint failed is left out of the catalog and the files after it are
\* still processed, so that during the build and at its return the keys of
\* the catalog are exactly the fingerprints of the qualifying files
\* processed whose fingerprinting succeeded.
C12_BuildFailure ==
    phase \in {"Building", "Built"}
        => /\ DOMAIN sdcard_metadata = Succeeded
           /\ Len(sd_log) = sd_i

\* the capture times the backend yielded for the source files processed
CaptureTimes ==
    {sd_log[j].ts[2] : j \in {h \in 1..Len(sd_log) : sd_log[h].ts # None}}
Minimum(S) == CHOOSE t \in S : \A u \in S : t <= u

\* C13  Cutoff derivation (exif): the cutoff build_sdcard_metadata returns is
\* the minimum of the capture times yielded for the qualifying source files,
\* it is absent exactly when no file yielded one, and with an absent cutoff
\* the traversal never ends in CutoffReached.
C13_CutoffDerivation ==
    /\ (variant = "exif" /\ phase = "Built")
          => IF CaptureTimes = {}
             THEN earliest_capture_timestamp = None
             ELSE earliest_capture_timestamp = PyFloat(Minimum(CaptureTimes))
    /\ (Running /\ ~CutoffSet) => state # "CutoffReached"

\* the exclusion regex ^b/ of Regexes, and the candidates recorded for files
\* located directly in the directory b of the target root
CaretDirSlash == [start |-> TRUE, lit |-> <<"b", "/">>, end |-> FALSE]
InDir(d) == {j \in 1..Len(file_list) : file_list[j].path.dir = d}

\* C14  Exclusion scenario: with the exclusion regex ^b/ a file located
\* directly in the directory b of the target root is not recorded as a
\* candidate, and a fingerprint of the catalog that only such a file has is
\* still in the residual catalog when the traversal ends.
C14_ExclusionScenario ==
    (Running /\ exclude = CaretDirSlash)
        => /\ InDir(<<"b">>) = {}
           /\ Ended =>
                \A j \in InDir(<<"b">>) :
                    (/\ FpOf(file_list[j]) \in DOMAIN catalog0
                     /\ \A h \in 1..Len(file_list) \ InDir(<<"b">>) :
                            FpOf(file_list[h]) # FpOf(file_list[j]))
                        => FpOf(file_list[j]) \in DOMAIN sdcard_metadata

\* the source paths of the entries of a catalog
Paths(catalog) == {catalog[k] : k \in DOMAIN catalog}

\* C15  Final report of main: with an empty catalog built from the source
\* main exits with status 0 and never starts the traversal; otherwise, after
\* the traversal, the all-found message is printed exactly when the residual
\* catalog is empty, else exactly the paths of the residual catalog are
\* listed, and the process ends with status 0.
C15_FinalReport ==
    /\ [][ (phase = "Built" /\ sdcard_metadata = EmptyDict)
             => (phase' = "Exited" /\ state' = "Idle") ]_vars
    /\ [](/\ phase = "Exited"
               => /\ sdcard_metadata = EmptyDict
                  /\ state = "Idle"
                  /\ out = [NoReport EXCEPT !.status = PyInt(0)]
          /\ phase \in {"Traversing", "Reported"} => catalog0 # EmptyDict
          /\ phase = "Reported"
               => /\ out.status = PyInt(0)
                  /\ out.all_found <=> sdcard_metadata = EmptyDict
                  /\ out.listed <=> ~out.all_found
                  /\ out.not_found = Paths(sdcard_metadata)
          /\ phase \notin {"Exited", "Reported"} => out = NoReport)

C15_Witness ==
    /\ phase = "Reported"
    /\ len(catalog0) = 2
    /\ out.listed /\ ~out.all_found
    /\ out.not_found = Paths(sdcard_metadata)
    /\ Cardinality(out.not_found) = 1

\* C16  Empty target: when the enumeration recorded no candidate, the
\* traversal ends in Exhausted with the catalog equal to the catalog on entry
\* and found_files = 0, and the report main then prints lists the source path
\* of every entry of that catalog.
C16_EmptyTarget ==
    /\ []((Scanned /\ file_list = <<>>)
            => /\ state \in {"Scanning", "Exhausted"}
               /\ sdcard_metadata = catalog0
               /\ found_files = 0)
    /\ [][ (Ended /\ file_list = <<>> /\ phase' = "Reported")
             => /\ out'.listed /\ ~out'.all_found
                /\ out'.not_found = Paths(catalog0)
                /\ Cardinality(out'.not_found) = len(catalog0) ]_vars

C16_Witness ==
    /\ Ended /\ state = "Exhausted"
    /\ file_list = <<>> /\ pc_skipped = {} /\ exclude = NoRegex
    /\ len(catalog0) = 2
    /\ sdcard_metadata = catalog0 /\ found_files = 0

\* C17  At-most-once consumption: a scanning step that fingerprints a
\* candidate whose fingerprint an earlier candidate of the scan produced
\* leaves the catalog and found_files unchanged and goes on without an
\* error; found_files never exceeds the size of the catalog on entry.
C17_AtMostOnce ==
    /\ [][ (/\ Len(fingerprinted') = Len(fingerprinted) + 1
            /\ fingerprinted'[Len(fingerprinted')].id \in ProducedIds)
          => /\ sdcard_metadata' = sdcard_metadata
             /\ found_files' = found_files
             /\ state' = "Scanning"
             /\ scan_pos' = scan_pos + 1 ]_vars
    /\ [](found_files <= len(catalog0))

C17_Witness ==
    /\ Running /\ variant = "blake3"
    /\ Len(fingerprinted) = 3
    /\ fingerprinted[1].id \in DOMAIN catalog0
    /\ fingerprinted[2].id = fingerprinted[1].id
    /\ fingerprinted[3].id = fingerprinted[1].id
    /\ len(catalog0) = 2
    /\ len(sdcard_metadata) = 1

\* C18  Cutoff boundary (exif): the cutoff test is strict. The candidate at
\* which the scan stops in CutoffReached has mtime < cutoff, never mtime =
\* cutoff, and when the traversal has ended every recorded candidate with
\* mtime >= cutoff has been fingerprinted, unless the catalog became empty
\* before the scan reached it.
C18_CutoffBoundary ==
    (Running /\ variant = "exif" /\ CutoffSet)
        => /\ state = "CutoffReached"
                => file_list[scan_pos + 1].mtime < earliest_capture_timestamp[2]
           /\ Ended
                => \A j \in 1..Len(file_list) :
                       file_list[j].mtime >= earliest_capture_timestamp[2]
                           => \/ /\ j <= Len(fingerprinted)
                                 /\ fingerprinted[j].path = file_list[j].path
                              \/ /\ state = "AllMatched"
                                 /\ j > scan_pos

C18_Witness ==
    /\ Ended /\ variant = "exif" /\ CutoffSet
    /\ state = "CutoffReached"
    /\ sdcard_metadata # EmptyDict
    /\ \E j \in 1..Len(fingerprinted) :
           /\ fingerprinted[j].mtime = earliest_capture_timestamp[2]
           /\ fingerprinted[j].id \in DOMAIN catalog0

\* C19  Scope of the exclusion filter: the regex is tested only against
\* subdirectories of the target root, so whatever the exclusion regex, no
\* qualifying file located directly in the target root is skipped by the
\* filter.
C19_ExclusionScope ==
    \A p \in pc_skipped : p.dir # <<".">>

\* C20  Consistency of main's two reports (exif): the warning that only
\* found out of looking_for files were found is printed exactly when the
\* residual catalog is non-empty, which is exactly when the list of the
\* files not found is printed; the warning and the all-found message are
\* never both printed.
C20_ReportConsistency ==
    (phase = "Reported" /\ variant = "exif")
        => /\ out.warning <=> sdcard_metadata # EmptyDict
           /\ out.warning <=> out.listed
           /\ ~(out.warning /\ out.all_found)
           /\ out.warning <=> looking_for # found_files

C20_Witness ==
    /\ phase = "Reported" /\ variant = "exif"
    /\ out.warning /\ out.listed
    /\ looking_for = 2 /\ found_files = 1
    /\ state = "CutoffReached"

=============================================================================
